---- MODULE Spec2Model ----
(***************************************************************************)
(* A model of the vacancy store of src/src/hh.py: the Vacancy record and   *)
(* its derived salary, the four file backends (JSON, CSV, Excel, TXT) with *)
(* their add / get / delete operations, and the VacancyManager on top.     *)
(*                                                                         *)
(* Python values are represented as follows.                               *)
(*   str        a sequence of one-character strings, <<"a", "b">>          *)
(*   None       NoneText where a str is expected, NoneSalary for a salary  *)
(*   dict       a function whose DOMAIN is the set of keys present         *)
(*   int | None (a salary bound) the set {n}, or {} for None               *)
(*   exception  an outcome record [ok |-> FALSE, err |-> <name>]           *)
(***************************************************************************)
EXTENDS Integers, Sequences, FiniteSets, TLC

(***************************************************************************)
(* Bounds of the model.                                                    *)
(***************************************************************************)
MaxLen == 2        \* records a backing file holds at most
MaxBound == 3      \* salary bounds range over 0..MaxBound
MaxItems == 2      \* raw items in one batch of the source adapter
MaxN == 2          \* topBySalary is asked for n in -MaxN..MaxN
MaxCriteria == 2   \* entries of a criteria dict, where the filter is called alone

(***************************************************************************)
(* Text.                                                                   *)
(***************************************************************************)
EmptyText == <<>>
NoneText == <<"None">>

\* str.lower() on one character of the model's alphabet
LowerChar(c) ==
    CASE c = "A" -> "a"
      [] c = "B" -> "b"
      [] c = "C" -> "c"
      [] c = "T" -> "t"
      [] OTHER -> c

\* str.lower()
Lower(s) == [i \in 1..Len(s) |-> LowerChar(s[i])]

\* Python's `needle in hay` on two str
Contains(needle, hay) ==
    \E i \in 0..(Len(hay) - Len(needle)) :
        SubSeq(hay, i + 1, i + Len(needle)) = needle

\* the characters str.strip() removes
IsSpace(c) == c \in {" ", "\t", "\n"}

RECURSIVE LStrip(_)
LStrip(s) ==
    IF s # <<>> /\ IsSpace(Head(s)) THEN LStrip(Tail(s)) ELSE s

RECURSIVE RStrip(_)
RStrip(s) ==
    IF s # <<>> /\ IsSpace(s[Len(s)]) THEN RStrip(SubSeq(s, 1, Len(s) - 1)) ELSE s

\* str.strip()
Strip(s) == RStrip(LStrip(s))

\* str.split(sep) for a one-character separator: always at least one part
RECURSIVE SplitFrom(_, _, _)
SplitFrom(s, sep, cur) ==
    IF s = <<>> THEN <<cur>>
    ELSE IF Head(s) = sep THEN <<cur>> \o SplitFrom(Tail(s), sep, <<>>)
    ELSE SplitFrom(Tail(s), sep, Append(cur, Head(s)))

Split(s, sep) == SplitFrom(s, sep, <<>>)

(***************************************************************************)
(* Salary values.                                                          *)
(***************************************************************************)
NoneSalary == [none |-> TRUE]
Null == {}
Some(n) == {n}
IntOf(b) == CHOOSE n \in b : TRUE

\* isinstance(salary, dict)
IsDict(s) == DOMAIN s \subseteq {"from", "to"}

\* dict.get(key) : None when the key is missing
DictGet(d, k) == IF k \in DOMAIN d THEN d[k] ELSE Null

\* truth value of a salary: None and the empty dict are false
SalaryTruthy(s) == s # NoneSalary /\ DOMAIN s # {}

\* truth value of int | None: None and 0 are false
BoundTruthy(b) == b # Null /\ b # Some(0)

Bounds == {Null} \cup {Some(n) : n \in 0..MaxBound}

\* every dict with keys among from / to and values int | None
SalaryDicts ==
    UNION {[K -> Bounds] : K \in SUBSET {"from", "to"}}

\* json.dumps(salary): one token, written here as a single character of
\* text that spells the dict
Encode(s) == <<ToString(s)>>
TokenTable == [s \in SalaryDicts |-> Encode(s)]
Dumps(s) == TokenTable[s]

\* json.loads(token): the dict the token encodes
Loads(tok) == CHOOSE s \in SalaryDicts : TokenTable[s] = tok

(***************************************************************************)
(* class Vacancy                                                           *)
(***************************************************************************)
Vacancy(title, link, salary, description, requirements) ==
    [title |-> title, link |-> link, salary |-> salary,
     description |-> description, requirements |-> requirements]

\* Vacancy.get_salary
GetSalary(v) ==
    IF ~SalaryTruthy(v.salary) THEN 0
    ELSE LET from_salary == DictGet(v.salary, "from")
             to_salary == DictGet(v.salary, "to")
         IN  IF BoundTruthy(from_salary) /\ BoundTruthy(to_salary)
                 THEN (IntOf(from_salary) + IntOf(to_salary)) \div 2
             ELSE IF BoundTruthy(from_salary) THEN IntOf(from_salary)
             ELSE IF BoundTruthy(to_salary) THEN IntOf(to_salary)
             ELSE 0

(***************************************************************************)
(* Outcomes of a call: a returned value or a raised exception.             *)
(***************************************************************************)
Ok(v) == [ok |-> TRUE, val |-> v]
Raise(e) == [ok |-> FALSE, err |-> e]

\* dict.get(key, default)
Get(d, k, default) == IF k \in DOMAIN d THEN d[k] ELSE default

\* validate_and_create without the check of the salary's type
ValidateAndCreate_NoCheck(data) ==
    Ok(Vacancy(Get(data, "name", EmptyText),
               Get(data, "alternate_url", EmptyText),
               Get(data, "salary", NoneSalary),
               Get(data, "description", EmptyText),
               Get(Get(data, "snippet", <<>>), "requirement", EmptyText)))

\* Vacancy.validate_and_create: reads the keys of a raw item of the source
ValidateAndCreate(data) ==
    LET salary == Get(data, "salary", NoneSalary)
    IN  IF salary # NoneSalary /\ ~IsDict(salary)
            THEN Raise("ValueError")
        ELSE Ok(Vacancy(Get(data, "name", EmptyText),
                        Get(data, "alternate_url", EmptyText),
                        salary,
                        Get(data, "description", EmptyText),
                        Get(Get(data, "snippet", <<>>), "requirement", EmptyText)))

(***************************************************************************)
(* Criteria: a dict, written as the sequence of its <<key, value>> entries *)
(* in the order the dict iterates them.                                    *)
(***************************************************************************)
\* getattr(vacancy, key, None)
GetAttr(v, key) == IF key \in DOMAIN v THEN v[key] ELSE NoneText

\* the criteria with min_salary as an exclusive bound
RECURSIVE EvalCriteria_Exclusive(_, _)
EvalCriteria_Exclusive(v, criteria) ==
    IF criteria = <<>> THEN "match"
    ELSE LET key == Head(criteria)[1]
             value == Head(criteria)[2]
             rest == EvalCriteria_Exclusive(v, Tail(criteria))
         IN  IF key = "keyword" THEN
                 IF Contains(Lower(value), Lower(v.description)) THEN rest
                 ELSE IF Contains(Lower(value), Lower(v.requirements)) THEN rest
                 ELSE "nomatch"
             ELSE IF key = "min_salary" THEN
                 IF GetSalary(v) <= value THEN "nomatch" ELSE rest
             ELSE IF GetAttr(v, key) # value THEN "nomatch"
             ELSE rest

\* One vacancy against the criteria, as the loops of _filter_vacancies and
\* _matches_criteria evaluate it: "match", "nomatch", or "error" when
\* .lower() is called on None (AttributeError).
RECURSIVE EvalCriteria(_, _)
EvalCriteria(v, criteria) ==
    IF criteria = <<>> THEN "match"
    ELSE LET key == Head(criteria)[1]
             value == Head(criteria)[2]
             rest == EvalCriteria(v, Tail(criteria))
         IN  IF key = "keyword" THEN
                 IF v.description = NoneText THEN "error"
                 ELSE IF Contains(Lower(value), Lower(v.description)) THEN rest
                 ELSE IF v.requirements = NoneText THEN "error"
                 ELSE IF Contains(Lower(value), Lower(v.requirements)) THEN rest
                 ELSE "nomatch"
             ELSE IF key = "min_salary" THEN
                 IF GetSalary(v) < value THEN "nomatch" ELSE rest
             ELSE IF GetAttr(v, key) # value THEN "nomatch"
             ELSE rest

\* the elements of s at the indices in keep, from index i on, in order
RECURSIVE Pick(_, _, _)
Pick(s, keep, i) ==
    IF i > Len(s) THEN <<>>
    ELSE (IF i \in keep THEN <<s[i]>> ELSE <<>>) \o Pick(s, keep, i + 1)

\* _filter_vacancies (the same text in all four storage classes)
FilterVacancies(vacancies, criteria) ==
    IF \E i \in 1..Len(vacancies) : EvalCriteria(vacancies[i], criteria) = "error"
        THEN Raise("AttributeError")
    ELSE Ok(Pick(vacancies,
            {i \in 1..Len(vacancies) : EvalCriteria(vacancies[i], criteria) = "match"}, 1))

\* _matches_criteria of the CSV, Excel and TXT storage classes, with the
\* list comprehension of delete_vacancy that keeps what does not match
KeepNotMatching(vacancies, criteria) ==
    IF \E i \in 1..Len(vacancies) : EvalCriteria(vacancies[i], criteria) = "error"
        THEN Raise("AttributeError")
    ELSE Ok(Pick(vacancies,
            {i \in 1..Len(vacancies) : EvalCriteria(vacancies[i], criteria) # "match"}, 1))

(***************************************************************************)
(* Backing files.  A file that does not exist is MissingFile; the content  *)
(* of an existing file depends on its format.                              *)
(***************************************************************************)
MissingFile == [st |-> "missing"]
\* a JSON file that does not decode, or decodes to something other than a list
CorruptFile == [st |-> "corrupt"]

\* ["title", "link", "salary", "description", "requirements"], each name
\* written as one character of text
HeaderRow ==
    << <<"title">>, <<"link">>, <<"salary">>, <<"description">>, <<"requirements">> >>

\* the elements of a sequence of outcomes, when all are ok
Vals(outcomes) == [i \in 1..Len(outcomes) |-> outcomes[i].val]
AllOk(outcomes) == \A i \in 1..Len(outcomes) : outcomes[i].ok

\* is tok a text json.loads decodes (to a salary dict)
IsToken(tok) == \E s \in SalaryDicts : TokenTable[s] = tok

\* `json.loads(x) if x else None` on a text read from a file
ParseSalary(x) ==
    IF x = NoneText \/ x = EmptyText THEN Ok(NoneSalary)
    ELSE IF IsToken(x) THEN Ok(Loads(x))
    ELSE Raise("JSONDecodeError")

\* `json.dumps(vacancy.salary) if vacancy.salary else ""`
SalaryField(v) == IF SalaryTruthy(v.salary) THEN Dumps(v.salary) ELSE EmptyText

\* the list of five values add_vacancy and _save_all_vacancies write
FieldList(v) ==
    <<v.title, v.link, SalaryField(v), v.description, v.requirements>>

(***************************************************************************)
(* class JSONVacancyStorage.  The file holds a list of dicts.              *)
(***************************************************************************)
\* _load_vacancies: a missing or corrupt file reads as []
JSON_LoadVacancies(f) == IF f.st = "json" THEN f.doc ELSE <<>>

\* _save_vacancies
JSON_SaveVacancies(vacancies) == [st |-> "json", doc |-> vacancies]

\* add_vacancy: vacancy.__dict__ is the dict of the five attributes
JSON_AddVacancy(f, vacancy) ==
    JSON_SaveVacancies(Append(JSON_LoadVacancies(f), vacancy))

\* [Vacancy.validate_and_create(data) for data in vacancies_data]
JSON_CreateAll(vacancies_data) ==
    LET made == [i \in 1..Len(vacancies_data) |-> ValidateAndCreate(vacancies_data[i])]
    IN  IF AllOk(made) THEN Ok(Vals(made)) ELSE Raise("ValueError")

\* get_vacancies
JSON_GetVacancies(f, criteria) ==
    LET vacancies == JSON_CreateAll(JSON_LoadVacancies(f))
    IN  IF vacancies.ok THEN FilterVacancies(vacancies.val, criteria) ELSE vacancies

\* _matches_criteria on vacancy.__dict__
RECURSIVE JSON_MatchesCriteria(_, _)
JSON_MatchesCriteria(vacancy_data, criteria) ==
    IF criteria = <<>> THEN "match"
    ELSE LET key == Head(criteria)[1]
             value == Head(criteria)[2]
             rest == JSON_MatchesCriteria(vacancy_data, Tail(criteria))
             description == Get(vacancy_data, "description", EmptyText)
             requirements == Get(vacancy_data, "requirements", EmptyText)
         IN  IF key = "keyword" THEN
                 IF description = NoneText THEN "error"
                 ELSE IF Contains(Lower(value), Lower(description)) THEN rest
                 ELSE IF requirements = NoneText THEN "error"
                 ELSE IF Contains(Lower(value), Lower(requirements)) THEN rest
                 ELSE "nomatch"
             ELSE IF key = "min_salary" THEN
                 LET vacancy == ValidateAndCreate(vacancy_data)
                 IN  IF ~vacancy.ok THEN "error"
                     ELSE IF GetSalary(vacancy.val) < value THEN "nomatch"
                     ELSE rest
             ELSE IF Get(vacancy_data, key, NoneText) # value THEN "nomatch"
             ELSE rest

\* delete_vacancy: the new file, or the exception that left the file alone
JSON_DeleteVacancy(f, criteria) ==
    LET vacancies == JSON_CreateAll(JSON_LoadVacancies(f))
    IN  IF ~vacancies.ok THEN vacancies
        ELSE LET vs == vacancies.val
                 verdict == [i \in 1..Len(vs) |-> JSON_MatchesCriteria(vs[i], criteria)]
             IN  IF \E i \in 1..Len(vs) : verdict[i] = "error"
                     THEN Raise("AttributeError")
                 ELSE Ok(JSON_SaveVacancies(
                         Pick(vs, {i \in 1..Len(vs) : verdict[i] # "match"}, 1)))

(***************************************************************************)
(* class CSVVacancyStorage.  The file holds rows of text fields; the csv   *)
(* module writes None as the empty field.                                  *)
(***************************************************************************)
CSV_Cell(x) == IF x = NoneText THEN EmptyText ELSE x

\* writer.writerow([...])
CSV_Row(v) == [i \in 1..5 |-> CSV_Cell(FieldList(v)[i])]

\* a constructor that writes the header-only file whatever is there
CSV_EnsureFileExists_Truncate(f) == [st |-> "csv", rows |-> <<HeaderRow>>]

\* _ensure_file_exists
CSV_EnsureFileExists(f) ==
    IF f.st = "missing" THEN [st |-> "csv", rows |-> <<HeaderRow>>] ELSE f

\* add_vacancy: open(..., "a") creates a missing file
CSV_AddVacancy(f, vacancy) ==
    [st |-> "csv",
     rows |-> Append(IF f.st = "missing" THEN <<>> ELSE f.rows, CSV_Row(vacancy))]

\* csv.DictReader's row[name]: the field under the column the first row names
CSV_HasColumn(header, name) == \E i \in 1..Len(header) : header[i] = <<name>>
CSV_Field(header, row, name) ==
    row[CHOOSE i \in 1..Len(header) : header[i] = <<name>>]

\* get_vacancies
CSV_GetVacancies(f, criteria) ==
    IF f.st = "missing" THEN Raise("FileNotFoundError")
    ELSE IF f.rows = <<>> THEN FilterVacancies(<<>>, criteria)
    ELSE LET header == f.rows[1]
             data == Tail(f.rows)
         IN  IF data # <<>> /\ \E i \in 1..5 : ~CSV_HasColumn(header, HeaderRow[i][1])
                 THEN Raise("KeyError")
             ELSE LET salary == [i \in 1..Len(data) |->
                                    ParseSalary(CSV_Field(header, data[i], "salary"))]
                  IN  IF ~AllOk(salary) THEN Raise("JSONDecodeError")
                      ELSE FilterVacancies(
                             [i \in 1..Len(data) |->
                                Vacancy(CSV_Field(header, data[i], "title"),
                                        CSV_Field(header, data[i], "link"),
                                        salary[i].val,
                                        CSV_Field(header, data[i], "description"),
                                        CSV_Field(header, data[i], "requirements"))],
                             criteria)

\* _save_all_vacancies
CSV_SaveAllVacancies(vacancies) ==
    [st |-> "csv",
     rows |-> <<HeaderRow>> \o [i \in 1..Len(vacancies) |-> CSV_Row(vacancies[i])]]

\* delete_vacancy
CSV_DeleteVacancy(f, criteria) ==
    LET vacancies == CSV_GetVacancies(f, <<>>)
    IN  IF ~vacancies.ok THEN vacancies
        ELSE LET filtered == KeepNotMatching(vacancies.val, criteria)
             IN  IF ~filtered.ok THEN filtered
                 ELSE Ok(CSV_SaveAllVacancies(filtered.val))

(***************************************************************************)
(* class ExcelVacancyStorage.  The file holds the rows of the active       *)
(* sheet; openpyxl saves a cell whose value is "" as an empty cell, which  *)
(* loads as None.                                                          *)
(***************************************************************************)
Excel_Cell(x) == IF x = EmptyText THEN NoneText ELSE x

\* sheet.append([...]) followed by workbook.save
Excel_Row(v) == [i \in 1..5 |-> Excel_Cell(FieldList(v)[i])]

\* _ensure_file_exists
Excel_EnsureFileExists(f) ==
    IF f.st = "missing" THEN [st |-> "xlsx", rows |-> <<HeaderRow>>] ELSE f

\* add_vacancy: load_workbook raises on a missing file
Excel_AddVacancy(f, vacancy) ==
    IF f.st = "missing" THEN Raise("FileNotFoundError")
    ELSE Ok([st |-> "xlsx", rows |-> Append(f.rows, Excel_Row(vacancy))])

\* get_vacancies: sheet.iter_rows(min_row=2, values_only=True)
Excel_GetVacancies(f, criteria) ==
    IF f.st = "missing" THEN Raise("FileNotFoundError")
    ELSE LET data == SubSeq(f.rows, 2, Len(f.rows))
             salary == [i \in 1..Len(data) |-> ParseSalary(data[i][3])]
         IN  IF ~AllOk(salary) THEN Raise("JSONDecodeError")
             ELSE FilterVacancies(
                    [i \in 1..Len(data) |->
                       Vacancy(data[i][1], data[i][2], salary[i].val,
                               data[i][4], data[i][5])],
                    criteria)

\* _save_all_vacancies
Excel_SaveAllVacancies(vacancies) ==
    [st |-> "xlsx",
     rows |-> <<HeaderRow>> \o [i \in 1..Len(vacancies) |-> Excel_Row(vacancies[i])]]

\* delete_vacancy
Excel_DeleteVacancy(f, criteria) ==
    LET vacancies == Excel_GetVacancies(f, <<>>)
    IN  IF ~vacancies.ok THEN vacancies
        ELSE LET filtered == KeepNotMatching(vacancies.val, criteria)
             IN  IF ~filtered.ok THEN filtered
                 ELSE Ok(Excel_SaveAllVacancies(filtered.val))

(***************************************************************************)
(* class TXTVacancyStorage.  The file holds lines of text, written here    *)
(* without their final "\n".                                               *)
(***************************************************************************)
\* an f-string's rendering of a str or of None
FStr(x) == IF x = NoneText THEN <<"N", "o", "n", "e">> ELSE x

\* the line add_vacancy and _save_all_vacancies write
TXT_Line(v) ==
    FStr(v.title) \o <<"\t">> \o FStr(v.link) \o <<"\t">> \o SalaryField(v)
        \o <<"\t">> \o FStr(v.description) \o <<"\t">> \o FStr(v.requirements)

\* add_vacancy: open(..., "a") creates a missing file
TXT_AddVacancy(f, vacancy) ==
    [st |-> "txt",
     lines |-> Append(IF f.st = "missing" THEN <<>> ELSE f.lines, TXT_Line(vacancy))]

\* line.strip().split("\t")
TXT_Parts(line) == Split(Strip(line), "\t")

\* get_vacancies: lines that do not split into five parts are skipped
TXT_GetVacancies(f, criteria) ==
    IF f.st = "missing" THEN FilterVacancies(<<>>, criteria)
    ELSE LET kept == Pick(f.lines,
                          {i \in 1..Len(f.lines) : Len(TXT_Parts(f.lines[i])) = 5}, 1)
             parts == [i \in 1..Len(kept) |-> TXT_Parts(kept[i])]
             salary == [i \in 1..Len(kept) |-> ParseSalary(parts[i][3])]
         IN  IF ~AllOk(salary) THEN Raise("JSONDecodeError")
             ELSE FilterVacancies(
                    [i \in 1..Len(kept) |->
                       Vacancy(parts[i][1], parts[i][2], salary[i].val,
                               parts[i][4], parts[i][5])],
                    criteria)

\* _save_all_vacancies
TXT_SaveAllVacancies(vacancies) ==
    [st |-> "txt", lines |-> [i \in 1..Len(vacancies) |-> TXT_Line(vacancies[i])]]

\* delete_vacancy
TXT_DeleteVacancy(f, criteria) ==
    LET vacancies == TXT_GetVacancies(f, <<>>)
    IN  IF ~vacancies.ok THEN vacancies
        ELSE LET filtered == KeepNotMatching(vacancies.val, criteria)
             IN  IF ~filtered.ok THEN filtered
                 ELSE Ok(TXT_SaveAllVacancies(filtered.val))

(***************************************************************************)
(* class VacancyStorage: the three operations, on the backend in use.      *)
(***************************************************************************)
Backends == {"json", "csv", "excel", "txt"}

\* the constructor of the storage class
Construct(b, f) ==
    CASE b = "csv" -> CSV_EnsureFileExists(f)
      [] b = "excel" -> Excel_EnsureFileExists(f)
      [] OTHER -> f

\* add_vacancy: the new file, or the exception raised
AddVacancy(b, f, vacancy) ==
    CASE b = "json" -> Ok(JSON_AddVacancy(f, vacancy))
      [] b = "csv" -> Ok(CSV_AddVacancy(f, vacancy))
      [] b = "excel" -> Excel_AddVacancy(f, vacancy)
      [] b = "txt" -> Ok(TXT_AddVacancy(f, vacancy))

\* get_vacancies: the list returned, or the exception raised
GetVacancies(b, f, criteria) ==
    CASE b = "json" -> JSON_GetVacancies(f, criteria)
      [] b = "csv" -> CSV_GetVacancies(f, criteria)
      [] b = "excel" -> Excel_GetVacancies(f, criteria)
      [] b = "txt" -> TXT_GetVacancies(f, criteria)

\* delete_vacancy: the new file, or the exception raised
DeleteVacancy(b, f, criteria) ==
    CASE b = "json" -> JSON_DeleteVacancy(f, criteria)
      [] b = "csv" -> CSV_DeleteVacancy(f, criteria)
      [] b = "excel" -> Excel_DeleteVacancy(f, criteria)
      [] b = "txt" -> TXT_DeleteVacancy(f, criteria)

\* the number of rows, lines or list items a file holds besides its header
Stored(b, f) ==
    CASE f.st = "json" -> Len(f.doc)
      [] f.st = "csv" -> Len(f.rows) - 1
      [] f.st = "xlsx" -> Len(f.rows) - 1
      [] f.st = "txt" -> Len(f.lines)
      [] OTHER -> 0

(***************************************************************************)
(* class VacancyManager                                                    *)
(***************************************************************************)
\* an equality that compares every field
Eq_AllFields(a, b) == a = b

\* Vacancy.__eq__, __lt__, __le__, __gt__, __ge__ on two vacancies
Eq(a, b) == GetSalary(a) = GetSalary(b)
Lt(a, b) == GetSalary(a) < GetSalary(b)
Le(a, b) == GetSalary(a) <= GetSalary(b)
Gt(a, b) == GetSalary(a) > GetSalary(b)
Ge(a, b) == GetSalary(a) >= GetSalary(b)
\* a != b: Python answers with the negation of __eq__
Ne(a, b) == ~Eq(a, b)

\* a step that puts v in front of the elements equal to it
RECURSIVE InsertDesc_Unstable(_, _)
InsertDesc_Unstable(sorted, v) ==
    IF sorted = <<>> THEN <<v>>
    ELSE IF ~Lt(v, Head(sorted)) THEN <<v>> \o sorted
    ELSE <<Head(sorted)>> \o InsertDesc_Unstable(Tail(sorted), v)

\* one step of list.sort(reverse=True): v goes behind every element that is
\* not less than it, so equal elements keep the order they arrived in
RECURSIVE InsertDesc(_, _)
InsertDesc(sorted, v) ==
    IF sorted = <<>> THEN <<v>>
    ELSE IF Lt(Head(sorted), v) THEN <<v>> \o sorted
    ELSE <<Head(sorted)>> \o InsertDesc(Tail(sorted), v)

\* a sort that leaves the list as it is
SortDesc_Unsorted(vacancies) == vacancies

\* vacancies.sort(reverse=True)
RECURSIVE SortDesc(_)
SortDesc(vacancies) ==
    IF vacancies = <<>> THEN <<>>
    ELSE InsertDesc(SortDesc(SubSeq(vacancies, 1, Len(vacancies) - 1)),
                    vacancies[Len(vacancies)])

\* the slice s[:n]: a negative n counts from the end
SliceTo(s, n) ==
    IF n >= 0 THEN SubSeq(s, 1, IF n < Len(s) THEN n ELSE Len(s))
    ELSE SubSeq(s, 1, IF Len(s) + n > 0 THEN Len(s) + n ELSE 0)

\* get_top_vacancies_by_salary
GetTopVacanciesBySalary(b, f, n) ==
    LET vacancies == GetVacancies(b, f, <<>>)
    IN  IF ~vacancies.ok THEN vacancies
        ELSE Ok(SliceTo(SortDesc(vacancies.val), n))

\* get_vacancies_with_keyword
GetVacanciesWithKeyword(b, f, keyword) ==
    GetVacancies(b, f, << <<"keyword", keyword>> >>)

\* the loop with a ValueError ending it instead of being caught
RECURSIVE FetchLoop_Abort(_, _, _, _)
FetchLoop_Abort(b, f, vacancies_data, added) ==
    IF vacancies_data = <<>> THEN [file |-> f, added |-> added, err |-> "none"]
    ELSE LET vacancy == ValidateAndCreate(Head(vacancies_data))
         IN  IF ~vacancy.ok THEN [file |-> f, added |-> added, err |-> "none"]
             ELSE LET stored == AddVacancy(b, f, vacancy.val)
                  IN  IF ~stored.ok
                          THEN [file |-> f, added |-> Append(added, vacancy.val),
                                err |-> stored.err]
                      ELSE FetchLoop_Abort(b, stored.val, Tail(vacancies_data),
                                           Append(added, vacancy.val))

\* the loop of fetch_and_store_vacancies over the raw items: the file it
\* leaves, the vacancies it passed to add_vacancy, in order, and the
\* exception that ended it early, if any (a ValueError is caught and the
\* loop goes on; anything else propagates)
RECURSIVE FetchLoop(_, _, _, _)
FetchLoop(b, f, vacancies_data, added) ==
    IF vacancies_data = <<>> THEN [file |-> f, added |-> added, err |-> "none"]
    ELSE LET vacancy == ValidateAndCreate(Head(vacancies_data))
         IN  IF ~vacancy.ok THEN FetchLoop(b, f, Tail(vacancies_data), added)
             ELSE LET stored == AddVacancy(b, f, vacancy.val)
                  IN  IF ~stored.ok
                          THEN [file |-> f, added |-> Append(added, vacancy.val),
                                err |-> stored.err]
                      ELSE FetchLoop(b, stored.val, Tail(vacancies_data),
                                     Append(added, vacancy.val))

\* response.raise_for_status(): a 4xx or 5xx status raises HTTPError
RaisesForStatus(response) ==
    response.status_code >= 400 /\ response.status_code < 600

\* the adapter without raise_for_status: the body is read whatever the status
HH_GetVacancies_NoRaise(response) == Ok(Get(response.body, "items", <<>>))

\* HHVacancyAPI.get_vacancies, given the response requests.get returned
HH_GetVacancies(response) ==
    IF RaisesForStatus(response) THEN Raise("HTTPError")
    ELSE Ok(Get(response.body, "items", <<>>))

\* fetch_and_store_vacancies, given the response of the source: the
\* adapter's exception is not caught, so nothing of the loop runs
FetchAndStoreVacancies(b, f, response) ==
    LET vacancies_data == HH_GetVacancies(response)
    IN  IF ~vacancies_data.ok
            THEN [file |-> f, added |-> <<>>, err |-> vacancies_data.err]
        ELSE FetchLoop(b, f, vacancies_data.val, <<>>)

(***************************************************************************)
(* Inputs of the operations.                                               *)
(***************************************************************************)
\* the vacancies handed to add_vacancy: with and without a title, a salary,
\* requirements; two pairs with equal derived salary
Vacancies ==
    { Vacancy(<<"T">>, <<"l">>, [from |-> Some(1), to |-> Some(3)], <<"a", "b">>, <<"C">>),
      Vacancy(<<"T">>, <<"l">>, [from |-> Some(2)], <<"a", "b">>, EmptyText),
      Vacancy(<<"T">>, <<"l">>, [from |-> Null, to |-> Some(3)], <<"a", "b">>, EmptyText),
      Vacancy(<<"T">>, <<"l">>, NoneSalary, <<"a", "b">>, <<"C">>),
      Vacancy(EmptyText, <<"l">>, NoneSalary, <<"a", "b">>, <<"C">>) }

Keywords == {<<"c">>, <<"B">>}

\* the criteria handed to get_vacancies and delete_vacancy
CriteriaSet ==
    { <<>>,
      << <<"keyword", <<"c">> >> >>,
      << <<"min_salary", 2>> >>,
      << <<"title", <<"T">> >> >>,
      << <<"min_salary", 1>>, <<"keyword", <<"c">> >> >> }

\* a raw item of the source: a dict with the keys the arguments give, a
\* missing key being written as the argument Absent / AbsentSalary
Absent == <<"Absent">>
AbsentSalary == [absent |-> TRUE]
RawItem(name, url, salary, description, snippet) ==
    (IF name = Absent THEN <<>> ELSE "name" :> name)
    @@ (IF url = Absent THEN <<>> ELSE "alternate_url" :> url)
    @@ (IF salary = AbsentSalary THEN <<>> ELSE "salary" :> salary)
    @@ (IF description = Absent THEN <<>> ELSE "description" :> description)
    @@ (IF snippet = AbsentSalary THEN <<>> ELSE "snippet" :> snippet)

\* a salary that is a str rather than a dict, as in test_validation.py
ScalarSalary == [str |-> <<"1">>]

\* the raw items the source adapter returns
RawItems ==
    { RawItem(<<"T">>, <<"l">>, [from |-> Some(1), to |-> Some(3)], <<"a", "b">>,
              [requirement |-> <<"C">>]),
      RawItem(<<"T">>, <<"l">>, ScalarSalary, <<"a", "b">>, [requirement |-> <<"C">>]) }

\* the batches the source adapter returns
RECURSIVE SeqsUpTo(_, _)
SeqsUpTo(S, n) ==
    IF n = 0 THEN {<<>>}
    ELSE LET shorter == SeqsUpTo(S, n - 1)
         IN  shorter \cup {Append(q, x) : q \in {p \in shorter : Len(p) = n - 1}, x \in S}

Batches == SeqsUpTo(RawItems, MaxItems)

\* the responses of the source: a success, a client error and a server
\* error, each with a JSON body that has an "items" list or has none
StatusCodes == {200, 404, 500}
NoItemsBody == [found |-> <<>>]
Bodies == {NoItemsBody} \cup {[items |-> batch] : batch \in Batches}
Responses == {[status_code |-> c, body |-> b] : c \in StatusCodes, b \in Bodies}

(***************************************************************************)
(* The state: the backend the manager was built with, its backing file,    *)
(* and the last operation performed with its arguments.                    *)
(***************************************************************************)
VARIABLES backend, file, last
vars == <<backend, file, last>>

\* the files found on disk when the program starts
StartFiles(b) == IF b = "json" THEN {MissingFile, CorruptFile} ELSE {MissingFile}

Init ==
    /\ backend \in Backends
    /\ \E f \in StartFiles(backend) : file = Construct(backend, f)
    /\ last = [op |-> "init"]

\* the storage object is built again on the same path (a new run of main.py)
Reopen ==
    /\ file' = Construct(backend, file)
    /\ last' = [op |-> "construct", before |-> file]
    /\ UNCHANGED backend

\* storage.add_vacancy(v)
Add(v) ==
    /\ Stored(backend, file) < MaxLen
    /\ LET o == AddVacancy(backend, file, v)
       IN  /\ file' = IF o.ok THEN o.val ELSE file
           /\ last' = [op |-> "add", vacancy |-> v, before |-> file, raised |-> ~o.ok]
    /\ UNCHANGED backend

\* storage.delete_vacancy(c)
Delete(c) ==
    /\ LET o == DeleteVacancy(backend, file, c)
       IN  /\ file' = IF o.ok THEN o.val ELSE file
           /\ last' = [op |-> "delete", criteria |-> c, before |-> file, raised |-> ~o.ok]
    /\ UNCHANGED backend

\* a query that writes the new file the JSON backend's message announces
Query_Creating(c) ==
    /\ last' = [op |-> "get", criteria |-> c, before |-> file,
                result |-> GetVacancies(backend, file, c)]
    /\ file' = IF backend = "json" /\ file.st # "json"
                   THEN JSON_SaveVacancies(<<>>) ELSE file
    /\ UNCHANGED backend

\* storage.get_vacancies(c)
Query(c) ==
    /\ last' = [op |-> "get", criteria |-> c, before |-> file,
                result |-> GetVacancies(backend, file, c)]
    /\ UNCHANGED <<backend, file>>

\* manager.get_top_vacancies_by_salary(n)
Top(n) ==
    /\ last' = [op |-> "top", n |-> n, before |-> file,
                result |-> GetTopVacanciesBySalary(backend, file, n)]
    /\ UNCHANGED <<backend, file>>

\* manager.get_vacancies_with_keyword(k)
Search(k) ==
    /\ last' = [op |-> "search", keyword |-> k, before |-> file,
                result |-> GetVacanciesWithKeyword(backend, file, k)]
    /\ UNCHANGED <<backend, file>>

\* manager.fetch_and_store_vacancies(query), the source answering with the
\* response; batch is the list of items the adapter hands over, if it does
Fetch(response) ==
    /\ Stored(backend, file) + Len(Get(response.body, "items", <<>>)) <= MaxLen
    /\ LET o == FetchAndStoreVacancies(backend, file, response)
           source == HH_GetVacancies(response)
       IN  /\ file' = o.file
           /\ last' = [op |-> "fetch", response |-> response, source |-> source,
                       batch |-> IF source.ok THEN source.val ELSE <<>>,
                       before |-> file, added |-> o.added, err |-> o.err]
    /\ UNCHANGED backend

Next ==
    \/ Reopen
    \/ \E v \in Vacancies : Add(v)
    \/ \E c \in CriteriaSet : Delete(c)
    \/ \E c \in CriteriaSet : Query(c)
    \/ \E n \in (-MaxN)..MaxN : Top(n)
    \/ \E k \in Keywords : Search(k)
    \/ \E response \in Responses : Fetch(response)

Spec == Init /\ [][Next]_vars

(***************************************************************************)
(* Calls of the functions that read no file: Vacancy.get_salary,           *)
(* Vacancy.validate_and_create and _filter_vacancies.  The initial states  *)
(* are the calls with their arguments; each action performs one call and   *)
(* records what it returned.                                               *)
(***************************************************************************)
\* the salaries get_salary is called on
SalaryInputs == SalaryDicts \cup {NoneSalary}

\* the raw items validate_and_create is called on: every key present or not
ItemInputs ==
    { RawItem(n, u, s, d, sn) :
        n \in {Absent, <<"T">>},
        u \in {Absent, <<"l">>},
        s \in {AbsentSalary, NoneSalary, <<>>, [from |-> Some(1), to |-> Some(3)],
               [from |-> Some(0)], ScalarSalary},
        d \in {Absent, <<"a", "b">>},
        sn \in {AbsentSalary, <<>>, [requirement |-> <<"C">>],
                [requirement |-> EmptyText]} }

\* the vacancies the filter is called on
FilterVacancyInputs ==
    { Vacancy(t, <<"l">>, s, d, r) :
        t \in {EmptyText, <<"T">>},
        s \in {NoneSalary, [from |-> Some(1), to |-> Some(3)], [from |-> Some(3)]},
        d \in {EmptyText, <<"a", "b">>},
        r \in {EmptyText, <<"C">>, <<"a", "B">>} }

\* the entries a criteria dict is made of
KeywordEntries == {<<"keyword", k>> : k \in {EmptyText, <<"c">>, <<"B">>, <<"A", "B">>}}
MinSalaryEntries == {<<"min_salary", n>> : n \in 0..MaxBound}
TitleEntries == {<<"title", t>> : t \in {EmptyText, <<"T">>}}
SalaryEntries == {<<"salary", s>> : s \in {NoneSalary, [from |-> Some(1), to |-> Some(3)]}}
OtherEntries == {<<"company", <<"T">> >>}

\* the dicts with n entries: no key twice
RECURSIVE CriteriaOfLen(_)
CriteriaOfLen(n) ==
    IF n = 0 THEN {<<>>}
    ELSE LET shorter == CriteriaOfLen(n - 1)
             Fresh(c, e) == \A i \in 1..Len(c) : c[i][1] # e[1]
         IN  UNION { {Append(c, e) : c \in {x \in shorter : Fresh(x, e)}} :
                       e \in KeywordEntries }
             \cup UNION { {Append(c, e) : c \in {x \in shorter : Fresh(x, e)}} :
                       e \in MinSalaryEntries }
             \cup UNION { {Append(c, e) : c \in {x \in shorter : Fresh(x, e)}} :
                       e \in TitleEntries }
             \cup UNION { {Append(c, e) : c \in {x \in shorter : Fresh(x, e)}} :
                       e \in SalaryEntries }
             \cup UNION { {Append(c, e) : c \in {x \in shorter : Fresh(x, e)}} :
                       e \in OtherEntries }

CriteriaInputs == UNION {CriteriaOfLen(n) : n \in 0..MaxCriteria}

\* the vacancies that are compared: every salary, under two titles
CompareInputs ==
    {Vacancy(t, <<"l">>, sal, <<"a", "b">>, <<"C">>) :
        t \in {EmptyText, <<"T">>}, sal \in SalaryInputs}

InitCalls ==
    /\ backend = "json"
    /\ file = MissingFile
    /\ \/ \E a, b \in CompareInputs : last = [op |-> "call", fn |-> "compare", a |-> a, b |-> b]
       \/ \E s \in SalaryInputs : last = [op |-> "call", fn |-> "get_salary", salary |-> s]
       \/ \E d \in ItemInputs : last = [op |-> "call", fn |-> "validate", data |-> d]
       \/ \E v \in FilterVacancyInputs : \E c \in CriteriaInputs :
             last = [op |-> "call", fn |-> "filter", vacancy |-> v, criteria |-> c]

\* vacancy.get_salary() on a vacancy with the given salary
CallGetSalary ==
    /\ last.op = "call" /\ last.fn = "get_salary"
    /\ last' = [op |-> "get_salary", salary |-> last.salary,
                result |-> GetSalary(Vacancy(<<"T">>, <<"l">>, last.salary,
                                             <<"a", "b">>, <<"C">>))]
    /\ UNCHANGED <<backend, file>>

\* Vacancy.validate_and_create(data)
CallValidate ==
    /\ last.op = "call" /\ last.fn = "validate"
    /\ last' = [op |-> "validate", data |-> last.data,
                result |-> ValidateAndCreate(last.data)]
    /\ UNCHANGED <<backend, file>>

\* storage._filter_vacancies([vacancy], criteria)
CallFilter ==
    /\ last.op = "call" /\ last.fn = "filter"
    /\ last' = [op |-> "filter", vacancy |-> last.vacancy, criteria |-> last.criteria,
                result |-> FilterVacancies(<<last.vacancy>>, last.criteria)]
    /\ UNCHANGED <<backend, file>>

\* a == b, a != b, a < b, a <= b, a > b, a >= b
CallCompare ==
    /\ last.op = "call" /\ last.fn = "compare"
    /\ last' = [op |-> "compare", a |-> last.a, b |-> last.b,
                eq |-> Eq(last.a, last.b), ne |-> Ne(last.a, last.b),
                lt |-> Lt(last.a, last.b), le |-> Le(last.a, last.b),
                gt |-> Gt(last.a, last.b), ge |-> Ge(last.a, last.b)]
    /\ UNCHANGED <<backend, file>>

NextCalls == CallGetSalary \/ CallValidate \/ CallFilter \/ CallCompare

SpecCalls == InitCalls /\ [][NextCalls]_vars

(***************************************************************************)
(* Properties.                                                             *)
(***************************************************************************)
Min(a, b) == IF a < b THEN a ELSE b

\* two salaries with the same from / to bounds, None only with None
SameSalary(a, b) ==
    /\ (a = NoneSalary) <=> (b = NoneSalary)
    /\ a # NoneSalary =>
          /\ DictGet(a, "from") = DictGet(b, "from")
          /\ DictGet(a, "to") = DictGet(b, "to")

\* two vacancies with identical texts and the same salary
SameVacancy(a, b) ==
    /\ a.title = b.title
    /\ a.link = b.link
    /\ a.description = b.description
    /\ a.requirements = b.requirements
    /\ SameSalary(a.salary, b.salary)

\* what query({}) returns on the current file
QueryAll == GetVacancies(backend, file, <<>>)

\* C1: round trip on every backend.  After add(r), query({}) returns a
\* record whose title, link, description and requirements are those of r
\* and whose salary has the same bounds.
C1_RoundTrip ==
    last.op = "add" =>
        /\ ~last.raised
        /\ QueryAll.ok
        /\ \E i \in 1..Len(QueryAll.val) : SameVacancy(QueryAll.val[i], last.vacancy)

\* C2: get_salary returns 0 for an absent salary, the floor of the mean of
\* the two bounds when both are integers (0 included), the one bound that
\* is an integer when only one is, and 0 when neither is.
C2_EffectiveSalary ==
    last.op = "get_salary" =>
        LET s == last.salary
            f == DictGet(s, "from")
            t == DictGet(s, "to")
        IN  last.result =
               IF s = NoneSalary THEN 0
               ELSE IF f # Null /\ t # Null THEN (IntOf(f) + IntOf(t)) \div 2
               ELSE IF f # Null THEN IntOf(f)
               ELSE IF t # Null THEN IntOf(t)
               ELSE 0

\* is there a one-to-one choice of positions of `all`, one per element of
\* `part`, holding the same elements, such that no element of `all` left
\* out has a higher salary than an element of `part`
IsTopSelection(part, all) ==
    \E pos \in [1..Len(part) -> 1..Len(all)] :
        /\ \A i, j \in 1..Len(part) : i # j => pos[i] # pos[j]
        /\ \A i \in 1..Len(part) : all[pos[i]] = part[i]
        /\ \A k \in 1..Len(all) :
              (\A i \in 1..Len(part) : pos[i] # k) =>
                 \A i \in 1..Len(part) : GetSalary(all[k]) <= GetSalary(part[i])

\* C3: topBySalary(n) with n >= 0 on a store of k records returns min(n, k)
\* of them, in non-increasing order of salary, and none of the records left
\* out has a higher salary than one returned.
C3_TopN ==
    (last.op = "top" /\ last.n >= 0) =>
        /\ QueryAll.ok
        /\ last.result.ok
        /\ LET top == last.result.val
               all == QueryAll.val
           IN  /\ Len(top) = Min(last.n, Len(all))
               /\ \A i, j \in 1..Len(top) :
                     i < j => GetSalary(top[i]) >= GetSalary(top[j])
               /\ IsTopSelection(top, all)

\* C3 is exercised: one of two stored records is asked for, and the one
\* with the higher salary was stored last
C3_Witness ==
    /\ last.op = "top" /\ last.n = 1
    /\ QueryAll.ok /\ Len(QueryAll.val) = 2
    /\ GetSalary(QueryAll.val[1]) < GetSalary(QueryAll.val[2])
    /\ last.result = Ok(<<QueryAll.val[2]>>)

\* C4: topBySalary(n) returns the empty list for every n <= 0.
C4_NonPositiveIsEmpty ==
    (last.op = "top" /\ last.n <= 0) => last.result = Ok(<<>>)

\* does one criteria entry hold of a vacancy, as the filter is described
EntryHolds(v, e) ==
    IF e[1] = "keyword"
        THEN \/ Contains(Lower(e[2]), Lower(v.description))
             \/ Contains(Lower(e[2]), Lower(v.requirements))
    ELSE IF e[1] = "min_salary" THEN GetSalary(v) >= e[2]
    ELSE e[1] \in DOMAIN v /\ v[e[1]] = e[2]

\* the orders in which n entries can be iterated
Orders(n) == {p \in [1..n -> 1..n] : \A i, j \in 1..n : i # j => p[i] # p[j]}

C6_KeywordSearch ==
    last.op = "add" =>
        /\ ~last.raised
        /\ \A k \in Keywords :
              LET r == last.vacancy
                  inRequirements == Contains(Lower(k), Lower(r.requirements))
                  inDescription == Contains(Lower(k), Lower(r.description))
                  before == GetVacanciesWithKeyword(backend, last.before, k)
                  after == GetVacanciesWithKeyword(backend, file, k)
              IN  (inRequirements # inDescription) =>
                     /\ after.ok
                     /\ before.ok => Len(after.val) = Len(before.val) + 1

\* what a file stores, unit by unit: list items, rows below the header, lines
RawUnits(f) ==
    CASE f.st = "json" -> f.doc
      [] f.st = "csv" -> Tail(f.rows)
      [] f.st = "xlsx" -> Tail(f.rows)
      [] f.st = "txt" -> f.lines
      [] OTHER -> <<>>

\* is a what is left of b after dropping some of its elements
RECURSIVE IsSubSeq(_, _)
IsSubSeq(a, b) ==
    IF a = <<>> THEN TRUE
    ELSE IF b = <<>> THEN FALSE
    ELSE IF Head(a) = Head(b) THEN IsSubSeq(Tail(a), Tail(b))
    ELSE IsSubSeq(a, Tail(b))

\* C7: delete(criteria) removes exactly the stored records that match.
\* Afterwards query(criteria) is empty, query({}) returns the records it
\* returned before that do not match, in the same order, and what the file
\* stores is what it stored before, unchanged, less the records removed.
C7_DeleteExact ==
    last.op = "delete" =>
        LET c == last.criteria
            before == GetVacancies(backend, last.before, <<>>)
        IN  /\ ~last.raised
            /\ before.ok /\ QueryAll.ok
            /\ GetVacancies(backend, file, c) = Ok(<<>>)
            /\ QueryAll.val =
                  Pick(before.val,
                       {i \in 1..Len(before.val) : EvalCriteria(before.val[i], c) # "match"},
                       1)
            /\ IsSubSeq(RawUnits(file), RawUnits(last.before))
            /\ Len(RawUnits(last.before)) - Len(RawUnits(file))
                  = Len(before.val) - Len(QueryAll.val)

\* the file of a store that holds no record
EmptyStore(b) ==
    CASE b = "json" -> [st |-> "json", doc |-> <<>>]
      [] b = "csv" -> [st |-> "csv", rows |-> <<HeaderRow>>]
      [] b = "excel" -> [st |-> "xlsx", rows |-> <<HeaderRow>>]
      [] b = "txt" -> [st |-> "txt", lines |-> <<>>]

\* C8: after a delete whose criteria match every record of a store that
\* holds some, the file is that of an empty store, query({}) returns the empty list, and add(r)
\* followed by query({}) returns exactly one record, whatever r.
C8_DeleteAll ==
    LET before == GetVacancies(backend, last.before, <<>>)
    IN  ( /\ last.op = "delete" /\ ~last.raised /\ before.ok
          /\ before.val # <<>>
          /\ \A i \in 1..Len(before.val) :
                EvalCriteria(before.val[i], last.criteria) = "match" ) =>
            /\ file = EmptyStore(backend)
            /\ QueryAll = Ok(<<>>)
            /\ \A r \in Vacancies :
                  LET added == AddVacancy(backend, file, r)
                  IN  /\ added.ok
                      /\ GetVacancies(backend, added.val, <<>>).ok
                      /\ Len(GetVacancies(backend, added.val, <<>>).val) = 1

\* a raw item passes validation unless its salary is there and is neither
\* None nor a dict
PassesValidation(d) ==
    ~("salary" \in DOMAIN d /\ d["salary"] # NoneSalary /\ ~IsDict(d["salary"]))

\* the vacancies of the items of a batch that pass validation, in order
RECURSIVE ValidVacancies(_)
ValidVacancies(batch) ==
    IF batch = <<>> THEN <<>>
    ELSE LET d == Head(batch)
         IN  (IF PassesValidation(d)
                 THEN <<Vacancy(d["name"], d["alternate_url"], d["salary"],
                                d["description"], d["snippet"]["requirement"])>>
                 ELSE <<>>)
             \o ValidVacancies(Tail(batch))

\* the file after add_vacancy of each vacancy in turn
RECURSIVE AddAll(_, _, _)
AddAll(b, f, vacancies) ==
    IF vacancies = <<>> THEN f
    ELSE AddAll(b, AddVacancy(b, f, Head(vacancies)).val, Tail(vacancies))

C10_ValidateAndCreate ==
    last.op = "validate" =>
        LET d == last.data
            r == last.result
            Has(k) == k \in DOMAIN d
        IN  IF Has("salary") /\ d["salary"] # NoneSalary /\ ~IsDict(d["salary"])
                THEN r = Raise("ValueError")
            ELSE /\ r.ok
                 /\ r.val.title = IF Has("name") THEN d["name"] ELSE EmptyText
                 /\ r.val.link = IF Has("alternate_url") THEN d["alternate_url"] ELSE EmptyText
                 /\ r.val.description =
                       IF Has("description") THEN d["description"] ELSE EmptyText
                 /\ r.val.requirements =
                       IF Has("snippet") /\ "requirement" \in DOMAIN d["snippet"]
                           THEN d["snippet"]["requirement"] ELSE EmptyText
                 /\ r.val.salary = IF Has("salary") THEN d["salary"] ELSE NoneSalary
                 /\ ~Has("salary") => GetSalary(r.val) = 0

\* C10 is exercised: a str salary is refused
C10_Witness ==
    /\ last.op = "validate"
    /\ "salary" \in DOMAIN last.data
    /\ last.data["salary"] = ScalarSalary
    /\ last.result = Raise("ValueError")

C12_SourceFailure ==
    (last.op = "fetch" /\ last.response.status_code \notin 200..299) =>
        /\ last.source = Raise("HTTPError")
        /\ last.err = "HTTPError"
        /\ last.added = <<>>
        /\ file = last.before

\* C12 is exercised: the failed response carries an item that would have
\* been added, and the store already holds a record
C12_Witness ==
    /\ last.op = "fetch"
    /\ last.response.status_code = 500
    /\ "items" \in DOMAIN last.response.body
    /\ \E i \in 1..Len(last.response.body.items) :
          PassesValidation(last.response.body.items[i])
    /\ Stored(backend, last.before) > 0
    /\ last.err = "HTTPError"
    /\ file = last.before

\* C13: comparison of two records looks at effectiveSalary alone.  a == b
\* iff the two values are equal, a < b iff a's is smaller, a > b iff it is
\* greater; exactly one of the three holds, and a != b negates a == b.
C13_Comparison ==
    last.op = "compare" =>
        LET x == GetSalary(last.a)
            y == GetSalary(last.b)
        IN  /\ last.eq <=> (x = y)
            /\ last.lt <=> (x < y)
            /\ last.gt <=> (x > y)
            /\ last.le <=> (last.lt \/ last.eq)
            /\ last.ge <=> (last.gt \/ last.eq)
            /\ last.ne <=> ~last.eq
            /\ \/ last.lt /\ ~last.eq /\ ~last.gt
               \/ ~last.lt /\ last.eq /\ ~last.gt
               \/ ~last.lt /\ ~last.eq /\ last.gt

\* C13 is exercised: two records that differ in title and in salary bounds
\* but not in effectiveSalary compare equal
C13_Witness ==
    /\ last.op = "compare"
    /\ last.a.title # last.b.title
    /\ last.a.salary # last.b.salary
    /\ GetSalary(last.a) > 0
    /\ last.eq /\ ~last.ne /\ ~last.lt /\ ~last.gt

\* the ways of picking n positions of a list of k records, one per place
\* of the result
Picks(n, k) == {p \in [1..n -> 1..k] : \A i, j \in 1..n : i # j => p[i] # p[j]}

\* C14: topBySalary is stable.  The result takes its records from
\* positions of query({}) such that two records of equal effectiveSalary
\* stand in the result in their file order, and a record left out was
\* stored after every record of the same effectiveSalary that is in.
C14_StableRanking ==
    (last.op = "top" /\ last.result.ok) =>
        LET all == GetVacancies(backend, last.before, <<>>).val
            res == last.result.val
        IN  \E p \in Picks(Len(res), Len(all)) :
              /\ \A j \in 1..Len(res) : res[j] = all[p[j]]
              /\ \A j, k \in 1..Len(res) :
                    (j < k /\ GetSalary(res[j]) = GetSalary(res[k])) => p[j] < p[k]
              /\ \A i \in 1..Len(all) : \A j \in 1..Len(res) :
                    ( (\A k \in 1..Len(res) : p[k] # i)
                      /\ GetSalary(all[i]) = GetSalary(res[j]) ) => p[j] < i

\* C14 is exercised: two different records of equal effectiveSalary are
\* stored, the top 1 is the one stored first and the top 2 has both in
\* file order
C14_Witness ==
    /\ last.op = "top" /\ last.result.ok
    /\ LET all == GetVacancies(backend, last.before, <<>>).val
       IN  /\ Len(all) = 2
           /\ all[1] # all[2]
           /\ GetSalary(all[1]) = GetSalary(all[2])
           /\ GetSalary(all[1]) > 0
           /\ last.n = 1
           /\ last.result.val = <<all[1]>>

\* C15: add is an append.  After an add, query({}) returns one record more
\* than before it, the records returned before are still there in front and
\* in their order, and the file holds what it held followed by one more
\* unit, also when an equal record is already stored.
C15_AddAppends ==
    LET before == GetVacancies(backend, last.before, <<>>)
    IN  (last.op = "add" /\ ~last.raised /\ before.ok) =>
            /\ Len(RawUnits(file)) = Len(RawUnits(last.before)) + 1
            /\ SubSeq(RawUnits(file), 1, Len(RawUnits(last.before)))
                  = RawUnits(last.before)
            /\ QueryAll.ok
            /\ Len(QueryAll.val) = Len(before.val) + 1
            /\ SubSeq(QueryAll.val, 1, Len(before.val)) = before.val

\* C16: reads have no effect on the store.  After query(criteria),
\* topBySalary(n) or searchByKeyword(k) the file is the one from before the
\* call, a missing file of the structured-document or line-text backend is
\* still missing and the read returned the empty list, and the same read
\* made again returns what the first one returned.
C16_ReadsNoEffect ==
    (last.op \in {"get", "top", "search"}) =>
        /\ file = last.before
        /\ RawUnits(file) = RawUnits(last.before)
        /\ last.op = "get" =>
              GetVacancies(backend, file, last.criteria) = last.result
        /\ last.op = "top" =>
              GetTopVacanciesBySalary(backend, file, last.n) = last.result
        /\ last.op = "search" =>
              GetVacanciesWithKeyword(backend, file, last.keyword) = last.result
        /\ (backend \in {"json", "txt"} /\ last.before = MissingFile) =>
              /\ file = MissingFile
              /\ last.result = Ok(<<>>)

\* C16 is exercised: a query on the structured-document backend whose file
\* is missing
C16_Witness ==
    /\ last.op = "get"
    /\ backend = "json"
    /\ last.before = MissingFile
    /\ file = MissingFile
    /\ last.result = Ok(<<>>)

\* C17: on the line-text backend the line add writes is never taken for a
\* malformed one.  After add(r) the last line of the file splits into
\* exactly 5 fields, and query({}) returns one record more than before, the
\* last of them being r.
C17_WrittenLineParses ==
    (last.op = "add" /\ backend = "txt" /\ ~last.raised) =>
        LET line == file.lines[Len(file.lines)]
            before == GetVacancies(backend, last.before, <<>>)
        IN  /\ Len(TXT_Parts(line)) = 5
            /\ QueryAll.ok
            /\ before.ok => Len(QueryAll.val) = Len(before.val) + 1
            /\ QueryAll.val # <<>>
            /\ SameVacancy(QueryAll.val[Len(QueryAll.val)], last.vacancy)

====
